---- MODULE Spec2Model ----
(***************************************************************************)
(* Model of install_cosmo_outer.py: the create-or-ensure-exists protocol   *)
(* (CreateOrEnsureExists), the four OpenStack resource creators and the    *)
(* fixed provisioning sequence of CosmoOnOpenStackInstaller.run.           *)
(*                                                                         *)
(* One step of the model is one blocking call to the OpenStack client      *)
(* (list, create, add_interface_router, security_group_rules.create)       *)
(* together with the local code that follows it up to the next call.       *)
(* Every client call either returns or raises; a raised exception is not   *)
(* caught anywhere and ends the run.                                       *)
(***************************************************************************)
EXTENDS Integers, Sequences, FiniteSets, TLC

VARIABLES
    config,   \* config['management'] as loaded from the JSON file
    cloud,    \* the networks, subnets, routers and security groups in OpenStack
    ifaces,   \* router interfaces in OpenStack
    rules,    \* security group rules in OpenStack
    run,      \* per installer process: position in run(), locals, client calls made
    probe     \* the direct calls of ensure_exists made by a caller other than run()

vars == <<config, cloud, ifaces, rules, run, probe>>

----------------------------------------------------------------------------
(* Bounds of the model *)

\* largest number of resources OpenStack holds before the installer starts
MaxInit == 2

\* largest number of direct calls of ensure_exists in a row
MaxProbes == 2

----------------------------------------------------------------------------
(* Module constants *)

EP_FLAG == "externally_provisioned"

EXTERNAL_PORTS == <<22, 9000>>

INTERNAL_PORTS == <<5555, 5672>>

\* Python's None, for the values that are otherwise strings (ids, cidrs)
None == "None"

\* Python's truth value of an id or None ("not ret")
Truthy(x) == x \notin {None, ""}

\* ids handed out by OpenStack: opaque strings, never reused
NewId(n) == "id" \o ToString(n)

Range(s) == {s[i] : i \in 1..Len(s)}

----------------------------------------------------------------------------
(* Exceptions *)

NoError == [cls |-> "none", fmt |-> "", args |-> <<>>]

OpenStackLogicError(fmt, args) ==
    [cls |-> "OpenStackLogicError", fmt |-> fmt, args |-> args]

\* an exception raised by keystone/neutron/nova client code
ClientError(op) == [cls |-> "ClientError", fmt |-> op, args |-> <<>>]

----------------------------------------------------------------------------
(* CreateOrEnsureExists *)

\* a dispatch that looks only at whether the key is there
create_or_ensure_exists_if_key(conf) ==
    IF EP_FLAG \in DOMAIN conf
    THEN "ensure_exists"
    ELSE "check_and_create"

\* which method create_or_ensure_exists calls for a section of the config
create_or_ensure_exists(conf) ==
    IF EP_FLAG \in DOMAIN conf /\ conf[EP_FLAG]
    THEN "ensure_exists"
    ELSE "check_and_create"

\* the objects OpenStack reports for a name: neutron filters by name
\* (list_networks(name=name)), the security group creator filters the
\* full nova list itself (sg.name == name)
list_objects_with_name(cl, what, name) ==
    {o \in cl : o.what = what /\ o.name = name}

\* a find_by_name that takes the first match however many there are
find_by_name_first(what, name, matches) ==
    IF Cardinality(matches) = 0
    THEN [ret |-> None, error |-> NoError]
    ELSE [ret |-> (CHOOSE m \in matches : TRUE).id, error |-> NoError]

\* find_by_name on the listed matches: [ret, error]
find_by_name(what, name, matches) ==
    IF Cardinality(matches) = 0
    THEN [ret |-> None, error |-> NoError]
    ELSE IF Cardinality(matches) = 1
    THEN [ret |-> (CHOOSE m \in matches : TRUE).id, error |-> NoError]
    ELSE [ret |-> None,
          error |-> OpenStackLogicError(
              "Lookup of {0} named '{1}' failed. There are {2} matches.",
              <<what, name, ToString(Cardinality(matches))>>)]

\* the client call behind list_objects_with_name, as recorded in a run's log
list_call(key, what, name, ok, matches) ==
    [key |-> key,
     op |-> IF what = "security group" THEN "security_groups.list"
            ELSE IF what = "network" THEN "list_networks"
            ELSE IF what = "subnet" THEN "list_subnets"
            ELSE "list_routers",
     ok |-> ok,
     n |-> IF ok THEN Cardinality(matches) ELSE 0,
     ids |-> IF ok THEN {m.id : m \in matches} ELSE {},
     id |-> None,
     payload |-> [name |-> name]]

\* an ensure_exists that creates the object it does not find
ensure_exists_or_create(cl, key, what, name, ok) ==
    LET matches == list_objects_with_name(cl, what, name)
        calls == <<list_call(key, what, name, ok, matches)>>
        found == find_by_name(what, name, matches)
        id == NewId(Cardinality(cl) + 1)
    IN  IF ~ok
        THEN [ret |-> None, error |-> ClientError(calls[1].op),
              cloud |-> cl, calls |-> calls]
        ELSE IF found.error # NoError
        THEN [ret |-> None, error |-> found.error, cloud |-> cl, calls |-> calls]
        ELSE IF ~Truthy(found.ret)
        THEN [ret |-> id, error |-> NoError,
              cloud |-> cl \cup {[what |-> what, name |-> name, id |-> id]},
              calls |-> calls]
        ELSE [ret |-> found.ret, error |-> NoError, cloud |-> cl, calls |-> calls]

\* ensure_exists(name) against the cloud cl, given whether the list call
\* returns (ok): [ret, error, cloud, calls]. The method calls nothing but
\* list_objects_with_name, so the cloud it leaves is the cloud it found.
ensure_exists(cl, key, what, name, ok) ==
    LET matches == list_objects_with_name(cl, what, name)
        calls == <<list_call(key, what, name, ok, matches)>>
        found == find_by_name(what, name, matches)
    IN  IF ~ok
        THEN [ret |-> None, error |-> ClientError(calls[1].op),
              cloud |-> cl, calls |-> calls]
        ELSE IF found.error # NoError
        THEN [ret |-> None, error |-> found.error, cloud |-> cl, calls |-> calls]
        ELSE IF ~Truthy(found.ret)
        THEN [ret |-> None,
              error |-> OpenStackLogicError("{0} '{1}' was not found", <<what, name>>),
              cloud |-> cl, calls |-> calls]
        ELSE [ret |-> found.ret, error |-> NoError, cloud |-> cl, calls |-> calls]

\* check_and_create that lets a single existing object through
check_and_create_unless_many(cl, key, what, name, ok) ==
    LET matches == list_objects_with_name(cl, what, name)
        calls == <<list_call(key, what, name, ok, matches)>>
    IN  IF ~ok
        THEN [error |-> ClientError(calls[1].op), calls |-> calls]
        ELSE IF Cardinality(matches) > 1
        THEN [error |-> OpenStackLogicError("{0} '{1}' already exists", <<what, name>>),
              calls |-> calls]
        ELSE [error |-> NoError, calls |-> calls]

\* check_and_create(name, ...) up to its call of self.create:
\* [error, calls]; error = NoError means create is called next
check_and_create(cl, key, what, name, ok) ==
    LET matches == list_objects_with_name(cl, what, name)
        calls == <<list_call(key, what, name, ok, matches)>>
    IN  IF ~ok
        THEN [error |-> ClientError(calls[1].op), calls |-> calls]
        ELSE IF matches # {}
        THEN [error |-> OpenStackLogicError("{0} '{1}' already exists", <<what, name>>),
              calls |-> calls]
        ELSE [error |-> NoError, calls |-> calls]

----------------------------------------------------------------------------
(* CosmoOnOpenStackInstaller.run: the sequence of steps and their arguments *)

\* run() with the external network looked up before the subnet
RunSteps_ext_network_first ==
    << [key |-> "network",                what |-> "network"],
       [key |-> "ext_network",            what |-> "network"],
       [key |-> "subnet",                 what |-> "subnet"],
       [key |-> "router",                 what |-> "router"],
       [key |-> "security_group_user",    what |-> "security group"],
       [key |-> "security_group_manager", what |-> "security group"] >>

\* the steps of run() in program order: the section of the config read
\* and the creator (by its WHAT) whose create_or_ensure_exists is called
RunSteps ==
    << [key |-> "network",                what |-> "network"],
       [key |-> "subnet",                 what |-> "subnet"],
       [key |-> "ext_network",            what |-> "network"],
       [key |-> "router",                 what |-> "router"],
       [key |-> "security_group_user",    what |-> "security group"],
       [key |-> "security_group_manager", what |-> "security group"] >>

Keys == {RunSteps[i].key : i \in 1..Len(RunSteps)}

\* sg_rules without the rules for the external ports
sg_rules_internal_only(sgu_id, cidr) ==
    [i \in 1..Len(INTERNAL_PORTS) |-> [port |-> INTERNAL_PORTS[i], group_id |-> sgu_id]]

\* sg_rules of run(): one rule per internal port with the user group as
\* source, then one per external port with the manager's cidr as source
sg_rules(sgu_id, cidr) ==
    [i \in 1..Len(INTERNAL_PORTS) |-> [port |-> INTERNAL_PORTS[i], group_id |-> sgu_id]]
    \o
    [i \in 1..Len(EXTERNAL_PORTS) |-> [port |-> EXTERNAL_PORTS[i], cidr |-> cidr]]

\* run() handing the management network to the router as its gateway
run_args_gateway_net_id(key, conf, ret) ==
    CASE key = "network" -> [ext |-> FALSE]
      [] key = "subnet" ->
            [ip_version |-> conf.ip_version, cidr |-> conf.cidr,
             net_id |-> ret["network"]]
      [] key = "ext_network" -> [ext |-> TRUE]
      [] key = "router" ->
            [interfaces |-> << [subnet_id |-> ret["subnet"]] >>,
             external_gateway_info |-> [network_id |-> ret["network"]]]
      [] key = "security_group_user" ->
            [description |-> "Cosmo created machines", rules |-> << >>]
      [] key = "security_group_manager" ->
            [description |-> "Cosmo Manager",
             rules |-> sg_rules(ret["security_group_user"], conf.cidr)]

\* the arguments run() passes after the name, from the config section and
\* the ids returned by the earlier steps (ret, by config key)
run_args(key, conf, ret) ==
    CASE key = "network" -> [ext |-> FALSE]
      [] key = "subnet" ->
            [ip_version |-> conf.ip_version, cidr |-> conf.cidr,
             net_id |-> ret["network"]]
      [] key = "ext_network" -> [ext |-> TRUE]
      [] key = "router" ->
            [interfaces |-> << [subnet_id |-> ret["subnet"]] >>,
             external_gateway_info |-> [network_id |-> ret["ext_network"]]]
      [] key = "security_group_user" ->
            [description |-> "Cosmo created machines", rules |-> << >>]
      [] key = "security_group_manager" ->
            [description |-> "Cosmo Manager",
             rules |-> sg_rules(ret["security_group_user"], conf.cidr)]

\* dict.get(k): the value, or None when the key is missing
Get(d, k) == IF k \in DOMAIN d THEN d[k] ELSE None

----------------------------------------------------------------------------
(* The state of one installer process *)

InitRun ==
    [pc     |-> 1,            \* index into RunSteps of the step in progress
     phase  |-> "call",       \* "call", "create", "attach" or "rules"
     status |-> "running",    \* "running", "completed" or "aborted"
     error  |-> NoError,      \* the exception that ended the run
     method |-> [k \in Keys |-> "none"],  \* the method each step dispatched to
     ret    |-> [k \in Keys |-> None],    \* the id each step returned
     log    |-> << >>,        \* the client calls made, in order
     cur    |-> None,         \* router_id / sg.id inside create
     idx    |-> 0]            \* loop index inside create

\* an exception that is caught around the step: run() goes on
Raise_and_go_on(s, err) ==
    [s EXCEPT !.error = err,
              !.pc = s.pc + 1,
              !.phase = "call",
              !.status = IF s.pc = 6 THEN "aborted" ELSE "running"]

\* an exception leaves run() and ends the process
Raise(s, err) == [s EXCEPT !.status = "aborted", !.error = err]

\* a run() that reports success once the user security group is in place
Return_before_manager_group(s, key, id) ==
    [s EXCEPT !.ret[key] = id,
              !.pc = s.pc + 1,
              !.phase = "call",
              !.cur = None,
              !.idx = 0,
              !.status = IF s.pc >= Len(RunSteps) - 1 THEN "completed" ELSE "running"]

\* create_or_ensure_exists returns id to run(), which goes on to the next step
Return(s, key, id) ==
    [s EXCEPT !.ret[key] = id,
              !.pc = s.pc + 1,
              !.phase = "call",
              !.cur = None,
              !.idx = 0,
              !.status = IF s.pc = Len(RunSteps) THEN "completed" ELSE "running"]

Called(s, call) == [s EXCEPT !.log = Append(@, call)]

Step(r) == RunSteps[run[r].pc]

Conf(r) == config[Step(r).key]

At(r, phase, what) ==
    /\ run[r].status = "running"
    /\ run[r].phase = phase
    /\ Step(r).what \in what

Whats == {"network", "subnet", "router", "security group"}

\* a client call that creates something, as recorded in a run's log
create_call(key, op, ok, id, payload) ==
    [key |-> key, op |-> op, ok |-> ok, n |-> 0, ids |-> {},
     id |-> IF ok THEN id ELSE None, payload |-> payload]

----------------------------------------------------------------------------
(* Steps of a run *)

\* create_or_ensure_exists with the flag set: ensure_exists
run_ensure_exists(r) ==
    /\ At(r, "call", Whats)
    /\ create_or_ensure_exists(Conf(r)) = "ensure_exists"
    /\ \E ok \in BOOLEAN :
        LET st  == Step(r)
            out == ensure_exists(cloud, st.key, st.what, Conf(r).name, ok)
            s   == [run[r] EXCEPT !.method[st.key] = "ensure_exists",
                                  !.log = @ \o out.calls]
        IN  /\ cloud' = out.cloud
            /\ run' = [run EXCEPT ![r] =
                         IF out.error # NoError
                         THEN Raise(s, out.error)
                         ELSE Return(s, st.key, out.ret)]
    /\ UNCHANGED <<probe, config, ifaces, rules>>

\* create_or_ensure_exists with the flag false or missing: check_and_create,
\* up to the point where it calls self.create
run_check_and_create(r) ==
    /\ At(r, "call", Whats)
    /\ create_or_ensure_exists(Conf(r)) = "check_and_create"
    /\ \E ok \in BOOLEAN :
        LET st  == Step(r)
            out == check_and_create(cloud, st.key, st.what, Conf(r).name, ok)
            s   == [run[r] EXCEPT !.method[st.key] = "check_and_create",
                                  !.log = @ \o out.calls]
        IN  run' = [run EXCEPT ![r] =
                      IF out.error # NoError
                      THEN Raise(s, out.error)
                      ELSE [s EXCEPT !.phase = "create"]]
    /\ UNCHANGED <<probe, config, cloud, ifaces, rules>>

\* OpenStackNetworkCreator.create
create_network(r) ==
    /\ At(r, "create", {"network"})
    /\ \E ok \in BOOLEAN :
        LET st   == Step(r)
            a    == run_args(st.key, Conf(r), run[r].ret)
            id   == NewId(Cardinality(cloud) + 1)
            call == create_call(st.key, "create_network", ok, id,
                        [name |-> Conf(r).name, admin_state_up |-> TRUE,
                         router_external |-> a.ext])
            s    == Called(run[r], call)
        IN  IF ok
            THEN /\ cloud' = cloud \cup {[what |-> "network", name |-> Conf(r).name, id |-> id]}
                 /\ run' = [run EXCEPT ![r] = Return(s, st.key, id)]
            ELSE /\ cloud' = cloud
                 /\ run' = [run EXCEPT ![r] = Raise(s, ClientError(call.op))]
    /\ UNCHANGED <<probe, config, ifaces, rules>>

\* OpenStackSubnetCreator.create
create_subnet(r) ==
    /\ At(r, "create", {"subnet"})
    /\ \E ok \in BOOLEAN :
        LET st   == Step(r)
            a    == run_args(st.key, Conf(r), run[r].ret)
            id   == NewId(Cardinality(cloud) + 1)
            call == create_call(st.key, "create_subnet", ok, id,
                        [name |-> Conf(r).name, ip_version |-> a.ip_version,
                         cidr |-> a.cidr, network_id |-> a.net_id])
            s    == Called(run[r], call)
        IN  IF ok
            THEN /\ cloud' = cloud \cup {[what |-> "subnet", name |-> Conf(r).name, id |-> id]}
                 /\ run' = [run EXCEPT ![r] = Return(s, st.key, id)]
            ELSE /\ cloud' = cloud
                 /\ run' = [run EXCEPT ![r] = Raise(s, ClientError(call.op))]
    /\ UNCHANGED <<probe, config, ifaces, rules>>

\* the body sent by OpenStackRouterCreator.create to create_router
router_args(name, external_gateway_info) ==
    IF DOMAIN external_gateway_info # {}
    THEN [name |-> name, admin_state_up |-> TRUE,
          external_gateway_info |-> external_gateway_info]
    ELSE [name |-> name, admin_state_up |-> TRUE]

\* a router creator that returns the id without attaching the interfaces
create_router_only(r) ==
    /\ At(r, "create", {"router"})
    /\ \E ok \in BOOLEAN :
        LET st   == Step(r)
            a    == run_args(st.key, Conf(r), run[r].ret)
            id   == NewId(Cardinality(cloud) + 1)
            call == create_call(st.key, "create_router", ok, id,
                        router_args(Conf(r).name, a.external_gateway_info))
            s    == Called(run[r], call)
        IN  IF ok
            THEN /\ cloud' = cloud \cup {[what |-> "router", name |-> Conf(r).name, id |-> id]}
                 /\ run' = [run EXCEPT ![r] = Return(s, st.key, id)]
            ELSE /\ cloud' = cloud
                 /\ run' = [run EXCEPT ![r] = Raise(s, ClientError(call.op))]
    /\ UNCHANGED <<probe, config, ifaces, rules>>

\* OpenStackRouterCreator.create: the create_router call
create_router(r) ==
    /\ At(r, "create", {"router"})
    /\ \E ok \in BOOLEAN :
        LET st   == Step(r)
            a    == run_args(st.key, Conf(r), run[r].ret)
            id   == NewId(Cardinality(cloud) + 1)
            call == create_call(st.key, "create_router", ok, id,
                        router_args(Conf(r).name, a.external_gateway_info))
            s    == Called(run[r], call)
        IN  IF ok
            THEN /\ cloud' = cloud \cup {[what |-> "router", name |-> Conf(r).name, id |-> id]}
                 /\ run' = [run EXCEPT ![r] =
                              IF Len(a.interfaces) > 0
                              THEN [s EXCEPT !.phase = "attach", !.cur = id, !.idx = 1]
                              ELSE Return(s, st.key, id)]
            ELSE /\ cloud' = cloud
                 /\ run' = [run EXCEPT ![r] = Raise(s, ClientError(call.op))]
    /\ UNCHANGED <<probe, config, ifaces, rules>>

\* an attachment loop that deletes the router when an attachment fails
add_interface_router_rollback(r) ==
    /\ At(r, "attach", {"router"})
    /\ \E ok \in BOOLEAN :
        LET st   == Step(r)
            a    == run_args(st.key, Conf(r), run[r].ret)
            i    == a.interfaces[run[r].idx]
            call == create_call(st.key, "add_interface_router", ok, None,
                        [router_id |-> run[r].cur, body |-> i])
            s    == Called(run[r], call)
        IN  IF ok
            THEN /\ ifaces' = ifaces \cup {[router_id |-> run[r].cur, body |-> i]}
                 /\ cloud' = cloud
                 /\ run' = [run EXCEPT ![r] =
                              IF run[r].idx < Len(a.interfaces)
                              THEN [s EXCEPT !.idx = @ + 1]
                              ELSE Return(s, st.key, run[r].cur)]
            ELSE /\ ifaces' = ifaces
                 /\ cloud' = {o \in cloud : o.id # run[r].cur}
                 /\ run' = [run EXCEPT ![r] = Raise(s, ClientError(call.op))]
    /\ UNCHANGED <<probe, config, rules>>

\* OpenStackRouterCreator.create: one pass of the loop over interfaces
add_interface_router(r) ==
    /\ At(r, "attach", {"router"})
    /\ \E ok \in BOOLEAN :
        LET st   == Step(r)
            a    == run_args(st.key, Conf(r), run[r].ret)
            i    == a.interfaces[run[r].idx]
            call == create_call(st.key, "add_interface_router", ok, None,
                        [router_id |-> run[r].cur, body |-> i])
            s    == Called(run[r], call)
        IN  IF ok
            THEN /\ ifaces' = ifaces \cup {[router_id |-> run[r].cur, body |-> i]}
                 /\ run' = [run EXCEPT ![r] =
                              IF run[r].idx < Len(a.interfaces)
                              THEN [s EXCEPT !.idx = @ + 1]
                              ELSE Return(s, st.key, run[r].cur)]
            ELSE /\ ifaces' = ifaces
                 /\ run' = [run EXCEPT ![r] = Raise(s, ClientError(call.op))]
    /\ UNCHANGED <<probe, config, cloud, rules>>

\* OpenStackSecurityGroupCreator.create: the security_groups.create call
security_groups_create(r) ==
    /\ At(r, "create", {"security group"})
    /\ \E ok \in BOOLEAN :
        LET st   == Step(r)
            a    == run_args(st.key, Conf(r), run[r].ret)
            id   == NewId(Cardinality(cloud) + 1)
            call == create_call(st.key, "security_groups.create", ok, id,
                        [name |-> Conf(r).name, description |-> a.description])
            s    == Called(run[r], call)
        IN  IF ok
            THEN /\ cloud' = cloud \cup {[what |-> "security group", name |-> Conf(r).name, id |-> id]}
                 /\ run' = [run EXCEPT ![r] =
                              IF Len(a.rules) > 0
                              THEN [s EXCEPT !.phase = "rules", !.cur = id, !.idx = 1]
                              ELSE Return(s, st.key, id)]
            ELSE /\ cloud' = cloud
                 /\ run' = [run EXCEPT ![r] = Raise(s, ClientError(call.op))]
    /\ UNCHANGED <<probe, config, ifaces, rules>>

\* rule arguments that open a rule without a cidr to every address
rule_args_any_address(sg_id, rule) ==
    [parent_group_id |-> sg_id,
     ip_protocol |-> "tcp",
     from_port |-> rule.port,
     to_port |-> rule.port,
     cidr |-> IF "cidr" \in DOMAIN rule THEN rule.cidr ELSE "0.0.0.0/0",
     group_id |-> Get(rule, "group_id")]

\* the keyword arguments of one security_group_rules.create call
rule_args(sg_id, rule) ==
    [parent_group_id |-> sg_id,
     ip_protocol |-> "tcp",
     from_port |-> rule.port,
     to_port |-> rule.port,
     cidr |-> Get(rule, "cidr"),
     group_id |-> Get(rule, "group_id")]

\* OpenStackSecurityGroupCreator.create: one pass of the loop over rules
security_group_rules_create(r) ==
    /\ At(r, "rules", {"security group"})
    /\ \E ok \in BOOLEAN :
        LET st   == Step(r)
            a    == run_args(st.key, Conf(r), run[r].ret)
            rule == rule_args(run[r].cur, a.rules[run[r].idx])
            call == create_call(st.key, "security_group_rules.create", ok, None, rule)
            s    == Called(run[r], call)
        IN  IF ok
            THEN /\ rules' = rules \cup {rule}
                 /\ run' = [run EXCEPT ![r] =
                              IF run[r].idx < Len(a.rules)
                              THEN [s EXCEPT !.idx = @ + 1]
                              ELSE Return(s, st.key, run[r].cur)]
            ELSE /\ rules' = rules
                 /\ run' = [run EXCEPT ![r] = Raise(s, ClientError(call.op))]
    /\ UNCHANGED <<probe, config, cloud, ifaces>>

----------------------------------------------------------------------------
(* Initial states: a configuration file and the cloud the installer finds *)

\* the (kind, name) pairs the configuration can name
Pairs ==
    << [what |-> "network",        name |-> "net1"],
       [what |-> "network",        name |-> "net2"],
       [what |-> "subnet",         name |-> "subnet1"],
       [what |-> "router",         name |-> "router1"],
       [what |-> "security group", name |-> "sg1"],
       [what |-> "security group", name |-> "sg2"] >>

RECURSIVE SumTo(_, _)
SumTo(c, i) == IF i = 0 THEN 0 ELSE c[i] + SumTo(c, i - 1)

\* how many objects of each pair exist beforehand (OpenStack does not keep
\* names unique)
Counts ==
    {c \in [1..Len(Pairs) -> 0..MaxInit] : SumTo(c, Len(Pairs)) <= MaxInit}

InitialCloud(c) ==
    UNION {{[what |-> Pairs[i].what, name |-> Pairs[i].name,
             id |-> NewId(SumTo(c, i - 1) + j)] : j \in 1..c[i]}
           : i \in 1..Len(Pairs)}

Clouds == {InitialCloud(c) : c \in Counts}

\* a section of the config: 'externally_provisioned' may be missing
Section(fields, flag) ==
    IF flag = "absent" THEN fields ELSE fields @@ (EP_FLAG :> (flag = "true"))

\* the sets of sections that omit the key: none, or any one of them
Omitted == {{}} \cup {{k} : k \in Keys}

\* the flag of every section: missing, false or true
Flags ==
    {f \in [Keys -> {"absent", "false", "true"}] :
        {k \in Keys : f[k] = "absent"} \in Omitted}

\* the external network and the manager group are named either like the
\* management network and the user group, or differently
Config(f, sameNames) ==
    [k \in Keys |->
        Section(
            CASE k = "network" -> [name |-> "net1"]
              [] k = "subnet" -> [name |-> "subnet1", ip_version |-> 4, cidr |-> "10.0.0.0/24"]
              [] k = "ext_network" -> [name |-> IF sameNames THEN "net1" ELSE "net2"]
              [] k = "router" -> [name |-> "router1"]
              [] k = "security_group_user" -> [name |-> "sg1"]
              [] k = "security_group_manager" ->
                    [name |-> IF sameNames THEN "sg1" ELSE "sg2", cidr |-> "0.0.0.0/0"],
            f[k])]

Configs == {Config(f, same) : f \in Flags, same \in BOOLEAN}

\* the objects that exist beforehand carry names of the configuration:
\* every list call filters by a configured name, so no other object is
\* ever seen or touched
Named(conf, cl) ==
    \A o \in cl : \E k \in Keys : conf[k].name = o.name

Init ==
    /\ config \in Configs
    /\ cloud \in {cl \in Clouds : Named(config, cl)}
    /\ ifaces = {}
    /\ rules = {}
    /\ run = [r \in {1} |-> InitRun]
    /\ probe = << >>

Next ==
    \/ \E r \in DOMAIN run : run_ensure_exists(r)
    \/ \E r \in DOMAIN run : run_check_and_create(r)
    \/ \E r \in DOMAIN run : create_network(r)
    \/ \E r \in DOMAIN run : create_subnet(r)
    \/ \E r \in DOMAIN run : create_router(r)
    \/ \E r \in DOMAIN run : add_interface_router(r)
    \/ \E r \in DOMAIN run : security_groups_create(r)
    \/ \E r \in DOMAIN run : security_group_rules_create(r)

Spec == Init /\ [][Next]_vars

----------------------------------------------------------------------------
(* ensure_exists called directly, several times in a row for one section   *)
(* of the config, while other users of the cloud may create objects        *)

\* creator.ensure_exists(conf['name']) for the step st, by a caller that
\* catches what it raises
probe_ensure_exists(st) ==
    /\ Len(probe) < MaxProbes
    /\ \A i \in 1..Len(probe) : probe[i].key = st.key
    /\ \E ok \in BOOLEAN :
        LET out == ensure_exists(cloud, st.key, st.what, config[st.key].name, ok)
        IN  /\ cloud' = out.cloud
            /\ probe' = Append(probe,
                          [key |-> st.key, before |-> cloud, after |-> out.cloud,
                           ok |-> ok, ret |-> out.ret, error |-> out.error])
    /\ UNCHANGED <<config, ifaces, rules, run>>

\* between such calls another user of the same OpenStack project creates
\* an object of the kind and name asked for
other_user_creates(st) ==
    /\ Len(probe) >= 1
    /\ probe[1].key = st.key
    /\ Cardinality(cloud) <= MaxInit
    /\ cloud' = cloud \cup {[what |-> st.what, name |-> config[st.key].name,
                             id |-> NewId(Cardinality(cloud) + 1)]}
    /\ UNCHANGED <<config, ifaces, rules, run, probe>>

InitEnsure ==
    /\ config \in {Config([k \in Keys |-> "true"], same) : same \in BOOLEAN}
    /\ cloud \in {cl \in Clouds : Named(config, cl)}
    /\ ifaces = {}
    /\ rules = {}
    /\ run = << >>
    /\ probe = << >>

NextEnsure ==
    \/ \E i \in 1..Len(RunSteps) : probe_ensure_exists(RunSteps[i])
    \/ \E i \in 1..Len(RunSteps) : other_user_creates(RunSteps[i])

SpecEnsure == InitEnsure /\ [][NextEnsure]_vars

----------------------------------------------------------------------------
(* Vocabulary of the properties *)

ListOps == {"list_networks", "list_subnets", "list_routers", "security_groups.list"}

CreateOps == {"create_network", "create_subnet", "create_router", "security_groups.create"}

\* the order of the steps as the documentation gives it
Rank(key) ==
    CASE key = "network" -> 1
      [] key = "subnet" -> 2
      [] key = "ext_network" -> 3
      [] key = "router" -> 4
      [] key = "security_group_user" -> 5
      [] key = "security_group_manager" -> 6

\* the client call that creates an object of a kind
CreateOp(what) ==
    CASE what = "network" -> "create_network"
      [] what = "subnet" -> "create_subnet"
      [] what = "router" -> "create_router"
      [] what = "security group" -> "security_groups.create"

What(key) ==
    CASE key \in {"network", "ext_network"} -> "network"
      [] key = "subnet" -> "subnet"
      [] key = "router" -> "router"
      [] key \in {"security_group_user", "security_group_manager"} -> "security group"

\* the positions in run r's log of the calls of the given kinds made for a step
Calls(r, key, ops) ==
    {i \in 1..Len(run[r].log) : run[r].log[i].key = key /\ run[r].log[i].op \in ops}

\* the step's list call has returned n matches
Listed(r, key) ==
    \E i \in Calls(r, key, ListOps) : run[r].log[i].ok

Matches(r, key) ==
    run[r].log[CHOOSE i \in Calls(r, key, ListOps) : TRUE].n

\* the run is between the list call and the create call of the step
AboutToCreate(r, key) ==
    /\ run[r].status = "running"
    /\ run[r].phase = "create"
    /\ RunSteps[run[r].pc].key = key

\* the run has been ended by the step's exception err
FailedWith(r, key, err) ==
    /\ run[r].status = "aborted"
    /\ run[r].error = err
    /\ run[r].pc = Rank(key)
    /\ run[r].ret[key] = None

AlreadyExists(key, name) ==
    OpenStackLogicError("{0} '{1}' already exists", <<What(key), name>>)

NotFound(key, name) ==
    OpenStackLogicError("{0} '{1}' was not found", <<What(key), name>>)

AmbiguousName(key, name, n) ==
    OpenStackLogicError("Lookup of {0} named '{1}' failed. There are {2} matches.",
                        <<What(key), name, ToString(n)>>)

----------------------------------------------------------------------------
(* C1: check_and_create, for every kind and name: when the list call       *)
(* returns one or more matches the step fails with "already exists" and    *)
(* no create call is made; when it returns none, create is called exactly  *)
(* once and the step returns the id that create returned.                  *)
C1_CheckAndCreate ==
    \A r \in DOMAIN run : \A k \in Keys :
        (run[r].method[k] = "check_and_create" /\ Listed(r, k)) =>
            LET creates == Calls(r, k, CreateOps) IN
            /\ Cardinality(Calls(r, k, ListOps)) = 1
            /\ Matches(r, k) >= 1 =>
                  /\ FailedWith(r, k, AlreadyExists(k, config[k].name))
                  /\ creates = {}
            /\ Matches(r, k) = 0 =>
                  /\ Cardinality(creates) = IF AboutToCreate(r, k) THEN 0 ELSE 1
                  /\ \A i \in creates : run[r].log[i].op = CreateOp(What(k))
                  /\ run[r].ret[k] # None =>
                        \E i \in creates : run[r].log[i].ok /\ run[r].log[i].id = run[r].ret[k]

\* a run in which one step created its resource and returned its id and a
\* later step found its name taken
C1_Witness ==
    \E r \in DOMAIN run : \E k1, k2 \in Keys :
        /\ run[r].method[k1] = "check_and_create" /\ run[r].ret[k1] # None
        /\ Calls(r, k1, CreateOps) # {}
        /\ run[r].method[k2] = "check_and_create" /\ Listed(r, k2)
        /\ Matches(r, k2) >= 1
        /\ run[r].status = "aborted"

----------------------------------------------------------------------------
(* C2: ensure_exists, for every kind and name: when the lookup returns     *)
(* exactly one match the step returns that match's id; when it returns     *)
(* none the step fails with "was not found"; when it returns two or more   *)
(* it fails with the lookup error whose message carries the kind, the name *)
(* and the number of matches.                                              *)
C2_EnsureExists ==
    \A r \in DOMAIN run : \A k \in Keys :
        (run[r].method[k] = "ensure_exists" /\ Listed(r, k)) =>
            LET i == CHOOSE j \in Calls(r, k, ListOps) : TRUE
                n == run[r].log[i].n
            IN
            /\ Cardinality(Calls(r, k, ListOps)) = 1
            /\ n = 1 =>
                  /\ run[r].log[i].ids = {run[r].ret[k]}
                  /\ run[r].pc > Rank(k)
            /\ n = 0 => FailedWith(r, k, NotFound(k, config[k].name))
            /\ n >= 2 => FailedWith(r, k, AmbiguousName(k, config[k].name, n))

\* a run that has reused one existing object and then met two objects with
\* the name of a later step
C2_Witness ==
    \E r \in DOMAIN run : \E k1, k2 \in Keys :
        /\ run[r].method[k1] = "ensure_exists" /\ run[r].ret[k1] # None
        /\ run[r].method[k2] = "ensure_exists" /\ Listed(r, k2)
        /\ Matches(r, k2) = 2
        /\ run[r].error.args = <<What(k2), config[k2].name, "2">>

----------------------------------------------------------------------------
(* C3: the method a step runs is decided by the section's flag alone:      *)
(* ensure_exists when 'externally_provisioned' is there and true,          *)
(* check_and_create when it is false or missing, whatever else the         *)
(* configuration and the cloud hold.                                       *)
C3_Dispatch ==
    \A r \in DOMAIN run : \A k \in Keys :
        /\ run[r].method[k] # "none" =>
              run[r].method[k] =
                  IF EP_FLAG \in DOMAIN config[k] /\ config[k][EP_FLAG] = TRUE
                  THEN "ensure_exists"
                  ELSE "check_and_create"
        /\ Calls(r, k, ListOps \cup CreateOps) # {} => run[r].method[k] # "none"

\* a run that has taken a step with the flag missing, one with the flag
\* false and one with the flag true
C3_Witness ==
    \E r \in DOMAIN run : \E k1, k2, k3 \in Keys :
        /\ EP_FLAG \notin DOMAIN config[k1] /\ run[r].method[k1] = "check_and_create"
        /\ EP_FLAG \in DOMAIN config[k2] /\ ~config[k2][EP_FLAG]
        /\ run[r].method[k2] = "check_and_create"
        /\ EP_FLAG \in DOMAIN config[k3] /\ config[k3][EP_FLAG]
        /\ run[r].method[k3] = "ensure_exists"

----------------------------------------------------------------------------
\* run r is about to take a step whose section is flagged
AtEnsureExists(r) ==
    /\ run[r].status = "running"
    /\ run[r].phase = "call"
    /\ EP_FLAG \in DOMAIN config[RunSteps[run[r].pc].key]
    /\ config[RunSteps[run[r].pc].key][EP_FLAG] = TRUE

(* C4: a step that goes through ensure_exists changes nothing in the       *)
(* cloud, whether it returns or raises: the objects, the router interfaces *)
(* and the security group rules are as before, and the only client call it *)
(* makes is the list call.                                                 *)
C4_EnsureExistsReadOnly ==
    [][\A r \in DOMAIN run :
          (AtEnsureExists(r) /\ run'[r] # run[r]) =>
              /\ cloud' = cloud
              /\ ifaces' = ifaces
              /\ rules' = rules
              /\ Len(run'[r].log) = Len(run[r].log) + 1
              /\ run'[r].log[Len(run'[r].log)].op \in ListOps
              /\ run'[r].phase = "call"]_vars

\* a run that has reused an existing object in one step and has failed to
\* find the object of a later step
C4_Witness ==
    \E r \in DOMAIN run : \E k1, k2 \in Keys :
        /\ run[r].method[k1] = "ensure_exists" /\ run[r].ret[k1] # None
        /\ run[r].method[k2] = "ensure_exists" /\ Listed(r, k2)
        /\ run[r].status = "aborted" /\ run[r].pc = Rank(k2)
        /\ run[r].error.cls = "OpenStackLogicError"

----------------------------------------------------------------------------
(* C5 as claimed: whenever a step's lookup finds more than one object of   *)
(* the name, the run ends with the lookup error that reports the kind, the *)
(* name and the number of matches.                                         *)
C5_AmbiguousAlways ==
    \A r \in DOMAIN run : \A k \in Keys :
        (Listed(r, k) /\ Matches(r, k) >= 2) =>
            FailedWith(r, k, AmbiguousName(k, config[k].name, Matches(r, k)))

(* C5 as amended: whenever a step's lookup finds more than one object of   *)
(* the name, the run ends at that step: with the lookup error reporting    *)
(* the kind, the name and the number of matches when the section is        *)
(* externally provisioned (two security groups: "2" matches), and with     *)
(* "already exists" when it is not.                                        *)
C5_AmbiguousWhenProvisioned ==
    \A r \in DOMAIN run : \A k \in Keys :
        (Listed(r, k) /\ Matches(r, k) >= 2) =>
            IF EP_FLAG \in DOMAIN config[k] /\ config[k][EP_FLAG] = TRUE
            THEN FailedWith(r, k, AmbiguousName(k, config[k].name, Matches(r, k)))
            ELSE FailedWith(r, k, AlreadyExists(k, config[k].name))

\* a run ended by two security groups carrying the name of an externally
\* provisioned group
C5_Witness ==
    \E r \in DOMAIN run : \E k \in {"security_group_user", "security_group_manager"} :
        /\ Listed(r, k) /\ Matches(r, k) = 2
        /\ run[r].status = "aborted"
        /\ run[r].error.args = <<"security group", config[k].name, "2">>

----------------------------------------------------------------------------
(* C6: the calls of a run follow the order management network, management  *)
(* subnet, external network, router, user security group, manager security *)
(* group: no call of a step comes before a call of an earlier step, no     *)
(* step is skipped, and a step makes its first call only when every        *)
(* earlier step has returned its id.                                       *)
C6_StepOrder ==
    \A r \in DOMAIN run :
        LET log == run[r].log IN
        /\ \A i, j \in 1..Len(log) :
              i < j => Rank(log[i].key) <= Rank(log[j].key)
        /\ \A i \in 1..Len(log) : \A k \in Keys :
              Rank(k) < Rank(log[i].key) =>
                  /\ run[r].ret[k] # None
                  /\ Calls(r, k, ListOps) # {}
                  /\ \A j \in Calls(r, k, ListOps \cup CreateOps) : j < i
        /\ \A k \in Keys :
              Calls(r, k, CreateOps) # {} =>
                  \E j \in Calls(r, k, ListOps) : \A i \in Calls(r, k, CreateOps) : j < i
        /\ run[r].status = "completed" =>
              \A k \in Keys : run[r].ret[k] # None /\ Calls(r, k, ListOps) # {}

\* a run that has gone through all six steps
C6_Witness ==
    \E r \in DOMAIN run :
        /\ run[r].status = "completed"
        /\ \A k \in Keys : Calls(r, k, ListOps) # {}
        /\ \E k \in Keys : Calls(r, k, CreateOps) # {}

----------------------------------------------------------------------------
\* something has raised in run r
Failed(r) ==
    \/ run[r].error # NoError
    \/ \E i \in 1..Len(run[r].log) : ~run[r].log[i].ok

\* run r stopped where it failed
HaltedAtFailure(r) ==
    /\ run[r].status = "aborted"
    /\ run[r].error # NoError
    /\ \A i \in 1..Len(run[r].log) :
          /\ Rank(run[r].log[i].key) <= run[r].pc
          /\ ~run[r].log[i].ok => i = Len(run[r].log)
    /\ \A k \in Keys :
          /\ Rank(k) >= run[r].pc => run[r].ret[k] = None
          /\ Rank(k) > run[r].pc => run[r].method[k] = "none"

(* C7: fail-fast. An exception in a step (already exists, not found,       *)
(* ambiguous lookup, or an error of a client call) ends the run there: the *)
(* failing call is the last call of the run, no step after the failing one *)
(* has started, and nothing more is ever called.                           *)
C7_FailFast ==
    [][\A r \in DOMAIN run :
          /\ Failed(r) => run'[r] = run[r]
          /\ Failed(r)' => HaltedAtFailure(r)']_vars

\* a run ended by an error of a client call in its fourth step, with the
\* two security groups still to come
C7_Witness ==
    \E r \in DOMAIN run :
        /\ run[r].status = "aborted"
        /\ run[r].pc = 4
        /\ run[r].error.cls = "ClientError"
        /\ run[r].ret["ext_network"] # None

----------------------------------------------------------------------------

\* the id a step obtained from the client: the one its create call
\* returned, or the one its list call reported
Obtained(r, key) ==
    IF Calls(r, key, CreateOps) # {}
    THEN run[r].log[CHOOSE i \in Calls(r, key, CreateOps) : TRUE].id
    ELSE CHOOSE x \in run[r].log[CHOOSE i \in Calls(r, key, ListOps) : TRUE].ids : TRUE

(* C8: the ids of earlier steps reach the later calls unchanged, whether   *)
(* the earlier step created its object or looked it up: create_subnet      *)
(* carries the management network's id as network_id; create_router        *)
(* carries the external network's id as gateway and the one interface      *)
(* added to the router is the subnet's id; every rule of the manager group *)
(* that names a source group names the user group's id.                    *)
C8_IdsThreaded ==
    \A r \in DOMAIN run :
        LET log == run[r].log IN
        /\ \A k \in Keys : run[r].ret[k] # None => run[r].ret[k] = Obtained(r, k)
        /\ \A i \in Calls(r, "subnet", {"create_subnet"}) :
              log[i].payload.network_id = Obtained(r, "network")
        /\ \A i \in Calls(r, "router", {"create_router"}) :
              log[i].payload.external_gateway_info =
                  [network_id |-> Obtained(r, "ext_network")]
        /\ Cardinality(Calls(r, "router", {"add_interface_router"})) <= 1
        /\ \A i \in Calls(r, "router", {"add_interface_router"}) :
              log[i].payload.body = [subnet_id |-> Obtained(r, "subnet")]
        /\ \A i \in Calls(r, "security_group_manager", {"security_group_rules.create"}) :
              log[i].payload.group_id # None =>
                  log[i].payload.group_id = Obtained(r, "security_group_user")

\* a completed run that looked the management network up and created the
\* subnet, the router and the manager group
C8_Witness ==
    \E r \in DOMAIN run :
        /\ run[r].status = "completed"
        /\ run[r].method["network"] = "ensure_exists"
        /\ run[r].method["subnet"] = "check_and_create"
        /\ run[r].method["router"] = "check_and_create"
        /\ run[r].method["security_group_manager"] = "check_and_create"
        /\ Calls(r, "router", {"add_interface_router"}) # {}

----------------------------------------------------------------------------
\* the positions in run r's log of the rule calls made for a step
RuleCalls(r, key) == Calls(r, key, {"security_group_rules.create"})

(* C9: creating the manager group submits, after the group itself, one     *)
(* rule per internal port with the user group's id as source and one per   *)
(* external port with the manager's cidr as source (N + M calls for N      *)
(* internal and M external ports), each for tcp with from_port and to_port *)
(* equal to the port; creating the user group submits no rule.             *)
C9_RuleExpansion ==
    \A r \in DOMAIN run :
        LET log  == run[r].log
            sgm  == "security_group_manager"
            rcs  == RuleCalls(r, sgm)
            byGroup == {i \in rcs : log[i].payload.group_id # None}
            byCidr  == {i \in rcs : log[i].payload.cidr # None}
        IN
        /\ RuleCalls(r, "security_group_user") = {}
        /\ \A k \in Keys \ {sgm} : RuleCalls(r, k) = {}
        /\ Cardinality(rcs) <= Len(INTERNAL_PORTS) + Len(EXTERNAL_PORTS)
        /\ \A i \in rcs :
              /\ \E c \in Calls(r, sgm, {"security_groups.create"}) :
                    /\ c < i
                    /\ log[c].ok
                    /\ log[i].payload.parent_group_id = log[c].id
              /\ log[i].payload.ip_protocol = "tcp"
              /\ log[i].payload.from_port = log[i].payload.to_port
              /\ \/ /\ log[i].payload.from_port \in Range(INTERNAL_PORTS)
                    /\ log[i].payload.group_id = Obtained(r, "security_group_user")
                    /\ log[i].payload.cidr = None
                 \/ /\ log[i].payload.from_port \in Range(EXTERNAL_PORTS)
                    /\ log[i].payload.cidr = config[sgm].cidr
                    /\ log[i].payload.group_id = None
              /\ \A j \in rcs : log[j].payload.from_port = log[i].payload.from_port => j = i
        /\ (run[r].method[sgm] = "check_and_create" /\ run[r].ret[sgm] # None) =>
              /\ Cardinality(byGroup) = Len(INTERNAL_PORTS)
              /\ Cardinality(byCidr) = Len(EXTERNAL_PORTS)
              /\ Cardinality(rcs) = Len(INTERNAL_PORTS) + Len(EXTERNAL_PORTS)
              /\ {log[i].payload : i \in rcs} \subseteq rules

\* a run that has created the user group and then the manager group with
\* all its rules
C9_Witness ==
    \E r \in DOMAIN run :
        /\ run[r].method["security_group_user"] = "check_and_create"
        /\ run[r].method["security_group_manager"] = "check_and_create"
        /\ run[r].ret["security_group_manager"] # None
        /\ Cardinality(RuleCalls(r, "security_group_manager")) = 4

----------------------------------------------------------------------------
\* direct calls i and i+1 ask for the same name and nobody has changed the
\* cloud between them
InARow(i) ==
    /\ i \in 1..(Len(probe) - 1)
    /\ probe[i + 1].key = probe[i].key
    /\ probe[i + 1].before = probe[i].after

----------------------------------------------------------------------------
\* the ids returned by the create calls recorded in a log
Created(log) ==
    {log[i].id : i \in {j \in 1..Len(log) : log[j].op \in CreateOps /\ log[j].ok}}

\* the calls a creator makes on the object it has just created
FollowUpOps == {"add_interface_router", "security_group_rules.create"}

\* the run has just been ended by a failed attachment or rule creation
OrphanLeft(s) ==
    /\ s.status = "aborted"
    /\ s.log # << >>
    /\ s.log[Len(s.log)].op \in FollowUpOps
    /\ ~s.log[Len(s.log)].ok

(* C12: no rollback. No step removes anything from the cloud: the sets of  *)
(* objects, router interfaces and rules only grow; every object a run has  *)
(* created is still in the cloud, also after the run was aborted; and when *)
(* an attachment or a rule creation fails, the router or group created     *)
(* just before stays in the cloud while the step returns no id.            *)
C12_NoRollback ==
    [][ /\ cloud \subseteq cloud'
        /\ ifaces \subseteq ifaces'
        /\ rules \subseteq rules'
        /\ \A r \in DOMAIN run \cap DOMAIN run' :
              /\ Created(run'[r].log) \subseteq {o.id : o \in cloud'}
              /\ (run[r].status = "running" /\ OrphanLeft(run'[r])) =>
                    /\ \E o \in cloud' : /\ o.id = run[r].cur
                                          /\ o.what = Step(r).what
                                          /\ o.name = Conf(r).name
                    /\ run[r].cur \in Created(run'[r].log)
                    /\ run'[r].ret[Step(r).key] = None
      ]_vars

C12_Witness ==
    \E r \in DOMAIN run :
        /\ OrphanLeft(run[r])
        /\ run[r].pc = Rank("router")
        /\ Cardinality(Created(run[r].log)) >= 2
        /\ \E o \in cloud : o.what = "router" /\ o.id = run[r].cur

----------------------------------------------------------------------------
\* the most calls one run can make: a list and a create per step, one
\* attachment, and one rule per port
MostCalls == 2 * Len(RunSteps) + 1 + Len(EXTERNAL_PORTS) + Len(INTERNAL_PORTS)

\* run() has returned: every step has produced an id
Completed(s) ==
    /\ s.status = "completed"
    /\ s.error = NoError
    /\ s.pc = Len(RunSteps) + 1
    /\ \A k \in Keys : Truthy(s.ret[k])

\* run() was left by the exception of the step at s.pc, the last call made
\* belongs to that step, and no later step has been started
Aborted(s) ==
    /\ s.status = "aborted"
    /\ s.error # NoError
    /\ s.pc \in 1..Len(RunSteps)
    /\ s.log # << >>
    /\ LET last == s.log[Len(s.log)] IN
        /\ last.key = RunSteps[s.pc].key
        /\ last.ok = (s.error.cls = "OpenStackLogicError")
        /\ last.ok => last.op \in ListOps
        /\ ~last.ok => s.error = ClientError(last.op)
    /\ \A i \in 1..Len(s.log) : Rank(s.log[i].key) <= s.pc
    /\ \A k \in Keys : Rank(k) >= s.pc => s.ret[k] = None /\ (Rank(k) > s.pc => s.method[k] = "none")

\* run() is still going: nothing has failed and a call is pending
Running(s) ==
    /\ s.status = "running"
    /\ s.error = NoError
    /\ s.pc \in 1..Len(RunSteps)
    /\ Len(s.log) < MostCalls

(* C13: every run ends in exactly one of two final states. While the run   *)
(* is going a client call is pending, and every step adds one call to a    *)
(* log that never holds more than seventeen calls, so the run ends once    *)
(* each call has returned or raised. When it has ended it is either        *)
(* completed, with an id for each of the six steps and no error, or        *)
(* aborted, with the error of the first failing step and no later step     *)
(* started; nothing more happens after that.                               *)
C13_TwoFinalStates ==
    /\ [](\A r \in DOMAIN run :
            /\ Running(run[r]) \/ Completed(run[r]) \/ Aborted(run[r])
            /\ Running(run[r]) => ENABLED Next
            /\ ~Running(run[r]) => ~ENABLED Next)
    /\ [][\E r \in DOMAIN run :
            /\ Running(run[r])
            /\ Len(run'[r].log) = Len(run[r].log) + 1
            /\ \A q \in DOMAIN run \ {r} : run'[q] = run[q]]_vars

C13_Witness ==
    \E r \in DOMAIN run :
        /\ Completed(run[r])
        /\ Len(run[r].log) = MostCalls

----------------------------------------------------------------------------
\* the rules submitted so far: the arguments of every
\* security_group_rules.create call of every run, returned or not
Submitted ==
    UNION {{run[r].log[i].payload :
               i \in {j \in 1..Len(run[r].log) :
                         run[r].log[j].op = "security_group_rules.create"}} :
           r \in DOMAIN run}

\* the rule names exactly one source, by the port it opens
OneSource(p) ==
    /\ Truthy(p.cidr) # Truthy(p.group_id)
    /\ p.from_port \in Range(INTERNAL_PORTS) => Truthy(p.group_id) /\ p.cidr = None
    /\ p.from_port \in Range(EXTERNAL_PORTS) => Truthy(p.cidr) /\ p.group_id = None

(* C14: every security-group rule a run submits, and so every rule in the  *)
(* cloud, has exactly one source: a cidr or a source group id, never both  *)
(* and never neither; the rules for the internal ports have the group id   *)
(* only and the rules for the external ports the cidr only.                *)
C14_OneSourcePerRule ==
    /\ \A p \in Submitted : OneSource(p)
    /\ rules \subseteq Submitted

C14_Witness ==
    /\ \E p \in rules : p.from_port \in Range(INTERNAL_PORTS) /\ OneSource(p)
    /\ \E p \in rules : p.from_port \in Range(EXTERNAL_PORTS) /\ OneSource(p)
    /\ \E p \in Submitted \ rules : OneSource(p)

----------------------------------------------------------------------------
(* C15: a router is created in two phases. The create_router call, with    *)
(* the name, admin_state_up true and the external gateway, comes first;    *)
(* the add_interface_router calls follow it directly, the j-th of them     *)
(* with the j-th interface descriptor and the id create_router returned;   *)
(* a failed attachment is the run's last call; and the step returns the    *)
(* router's id exactly when every descriptor has been attached.            *)
C15_RouterTwoPhase ==
    \A r \in DOMAIN run :
        LET log == run[r].log
            key == "router"
            cr  == Calls(r, key, {"create_router"})
            at  == Calls(r, key, {"add_interface_router"})
            ifs == run_args(key, config[key], run[r].ret).interfaces
        IN
        /\ Cardinality(cr) <= 1
        /\ \A k \in Keys \ {key} : Calls(r, k, {"create_router", "add_interface_router"}) = {}
        /\ \A c \in cr :
              /\ log[c].payload.name = config[key].name
              /\ log[c].payload.admin_state_up = TRUE
              /\ log[c].payload.external_gateway_info =
                    [network_id |-> run[r].ret["ext_network"]]
              /\ \A i \in at :
                    /\ log[c].ok
                    /\ i - c \in 1..Len(ifs)
                    /\ log[i].payload = [router_id |-> log[c].id, body |-> ifs[i - c]]
                    /\ ~log[i].ok => i = Len(log) /\ run[r].status = "aborted"
                    /\ log[i].ok => log[i].payload \in ifaces
              /\ Truthy(run[r].ret[key]) <=>
                    /\ log[c].ok
                    /\ Cardinality(at) = Len(ifs)
                    /\ \A i \in at : log[i].ok
              /\ Truthy(run[r].ret[key]) => run[r].ret[key] = log[c].id
        /\ cr = {} => at = {}

C15_Witness ==
    \E r \in DOMAIN run :
        /\ Truthy(run[r].ret["router"])
        /\ run[r].method["subnet"] = "ensure_exists"
        /\ run[r].method["ext_network"] = "check_and_create"
        /\ Calls(r, "router", {"add_interface_router"}) # {}
        /\ \E o \in cloud : o.what = "router" /\ o.id = run[r].ret["router"]

----------------------------------------------------------------------------
\* the objects the cloud held before any run created one
Preexisting ==
    {o \in cloud : \A r \in DOMAIN run : o.id \notin Created(run[r].log)}

\* no two objects of a set have the same kind and name
UniqueNames(objs) ==
    \A o1, o2 \in objs : (o1.what = o2.what /\ o1.name = o2.name) => o1 = o2

(* C16: a run keeps names unique. When no two objects of the cloud the run *)
(* started on had the same kind and name, no two objects have in any state *)
(* of the run, also when the two network sections or the two security      *)
(* group sections of the configuration have the same name.                 *)
C16_NamesStayUnique ==
    UniqueNames(Preexisting) => UniqueNames(cloud)

\* a completed run under a configuration whose two network sections and two
\* group sections share their names, that created an object under each name
C16_Witness ==
    /\ UniqueNames(Preexisting)
    /\ config["network"].name = config["ext_network"].name
    /\ config["security_group_user"].name = config["security_group_manager"].name
    /\ \E r \in DOMAIN run :
          /\ run[r].status = "completed"
          /\ \E o \in cloud \ Preexisting :
                o.what = "network" /\ o.name = config["network"].name
          /\ \E o \in cloud \ Preexisting :
                o.what = "security group" /\ o.name = config["security_group_user"].name

----------------------------------------------------------------------------
\* the number of matches a step's lookup must return for the step to go on:
\* one object to use when the section is externally provisioned, none in
\* the way otherwise
Wanted(key) ==
    IF create_or_ensure_exists(config[key]) = "ensure_exists" THEN 1 ELSE 0

\* every client call the run has made has returned
NoClientError(r) ==
    \A i \in 1..Len(run[r].log) : run[r].log[i].ok

\* the sections the run has to create an object for
ToCreate ==
    {k \in Keys : create_or_ensure_exists(config[k]) = "check_and_create"}

(* C17: what makes a run succeed. As long as no client call has raised, a  *)
(* run is aborted exactly when one of its lookups returned another number  *)
(* of matches than wanted: 0 for a section that is not externally          *)
(* provisioned, 1 for one that is. A completed run has made all six        *)
(* lookups, each with the wanted number, and has created one object for    *)
(* each section that is not externally provisioned, and no other.          *)
C17_SuccessCharacterised ==
    \A r \in DOMAIN run :
        /\ NoClientError(r) =>
              (run[r].status = "aborted" <=>
                  \E k \in Keys : Listed(r, k) /\ Matches(r, k) # Wanted(k))
        /\ run[r].status = "completed" =>
              /\ NoClientError(r)
              /\ \A k \in Keys : Listed(r, k) /\ Matches(r, k) = Wanted(k)
              /\ \A k \in Keys : Calls(r, k, CreateOps) # {} <=> k \in ToCreate
              /\ Cardinality(Created(run[r].log)) = Cardinality(ToCreate)
              /\ Cardinality(cloud \ Preexisting) = Cardinality(ToCreate)

\* a completed run that used three objects it found and created three
C17_Witness ==
    \E r \in DOMAIN run :
        /\ run[r].status = "completed"
        /\ Cardinality(ToCreate) = 3
        /\ Cardinality(Created(run[r].log)) = 3
        /\ \A k \in Keys : Matches(r, k) = Wanted(k)

----------------------------------------------------------------------------
(* Running the installer again *)

\* __main__ invoked once more after run() was left by an
\* OpenStackLogicError: a new run() with the same configuration file, on
\* the cloud as the first run left it
start_again ==
    /\ Len(run) = 1
    /\ run[1].status = "aborted"
    /\ run[1].error.cls = "OpenStackLogicError"
    /\ run' = Append(run, InitRun)
    /\ UNCHANGED <<probe, config, cloud, ifaces, rules>>

NextRerun ==
    \/ Next
    \/ start_again

SpecRerun == Init /\ [][NextRerun]_vars

\* the steps for which a run's create call has returned
CreatedSteps(r) ==
    {k \in Keys : \E i \in Calls(r, k, CreateOps) : run[r].log[i].ok}

\* the first of these steps in the order of run()
FirstCreated(r) ==
    CHOOSE k \in CreatedSteps(r) : \A j \in CreatedSteps(r) : Rank(k) <= Rank(j)

ReconciliationErrors(k) ==
    {AlreadyExists(k, config[k].name), NotFound(k, config[k].name)}
    \cup {AmbiguousName(k, config[k].name, n) : n \in 2..(Cardinality(cloud) + 1)}

\* the outcome the second run has when it has ended
SameFailureAgain ==
    /\ run[2].status = "aborted"
    /\ run[2].error \in ReconciliationErrors(RunSteps[run[2].pc].key)
    /\ CreatedSteps(1) # {} =>
          FailedWith(2, FirstCreated(1),
                     AlreadyExists(FirstCreated(1), config[FirstCreated(1)].name))
    /\ CreatedSteps(1) = {} =>
          /\ run[2].pc = run[1].pc
          /\ run[2].error = run[1].error

----------------------------------------------------------------------------
(* Two installers at once *)

\* the most objects the cloud holds when two runs start together
MaxFound == 0

\* __main__ invoked twice with the same configuration file on one cloud;
\* nothing coordinates the two runs, so their client calls interleave in
\* any order. Every section carries the flag here: a section without it is
\* dispatched as one whose flag is false.
InitTwo ==
    /\ config \in {c \in Configs : \A k \in Keys : EP_FLAG \in DOMAIN c[k]}
    /\ cloud \in {cl \in Clouds : Named(config, cl) /\ Cardinality(cl) <= MaxFound}
    /\ ifaces = {}
    /\ rules = {}
    /\ run = <<InitRun, InitRun>>
    /\ probe = << >>

SpecTwo == InitTwo /\ [][Next]_vars

\* both runs have listed no object for the step and created one each
BothCreated(k) ==
    \A r \in DOMAIN run :
        /\ run[r].method[k] = "check_and_create"
        /\ \E i \in Calls(r, k, CreateOps) : run[r].log[i].ok
        /\ Listed(r, k) /\ Matches(r, k) = 0

\* the objects of the step's kind that have the step's name
Namesakes(k) == list_objects_with_name(cloud, What(k), config[k].name)

(* C18: check_and_create is not atomic. When two runs with the same        *)
(* configuration have both listed no object for a section that is not      *)
(* externally provisioned and have both created one, the cloud holds two   *)
(* or more objects of that kind and name, and from then on ensure_exists   *)
(* for that name fails with the lookup error that counts the matches: in   *)
(* a call made now, and in every step of either run that looked the name   *)
(* up as externally provisioned and was given both objects.                *)
C18_BothCreate ==
    \A k \in Keys :
        BothCreated(k) =>
            /\ Cardinality(UNION {{run[r].log[i].id : i \in Calls(r, k, CreateOps)} :
                                  r \in DOMAIN run}) = 2
            /\ Cardinality(Namesakes(k)) >= 2
            /\ ensure_exists(cloud, k, What(k), config[k].name, TRUE).error =
                  AmbiguousName(k, config[k].name, Cardinality(Namesakes(k)))
            /\ \A r \in DOMAIN run : \A k2 \in Keys :
                  ( /\ run[r].method[k2] = "ensure_exists"
                    /\ What(k2) = What(k) /\ config[k2].name = config[k].name
                    /\ Listed(r, k2) /\ Matches(r, k2) >= 2 ) =>
                  FailedWith(r, k2, AmbiguousName(k2, config[k2].name, Matches(r, k2)))

\* both runs created the management network on an empty cloud, and one of
\* them then looked the external network up under the same name
C18_Witness ==
    /\ BothCreated("network")
    /\ Cardinality(Namesakes("network")) = 2
    /\ \E r \in DOMAIN run :
          FailedWith(r, "ext_network", AmbiguousName("ext_network", config["network"].name, 2))
====
